---- MODULE Spec2Model ----
(***************************************************************************)
(* Model of backtrace.py: the trace context (_TraceContext), its two       *)
(* formatters, the output sink, and the trace_calls wrapper, driven by the *)
(* events the interpreter's sys.settrace machinery delivers while the      *)
(* traced call tree runs.                                                  *)
(***************************************************************************)
EXTENDS Integers, Sequences, FiniteSets, TLC

VARIABLES
    pc,         \* position of the wrapper (or of the formatter harness)
    cfg,        \* closure of the wrapper: func, log_file, return_trace, trace_on_success, use_rich
    hook,       \* the process-wide trace-hook slot (sys.gettrace / sys.settrace)
    entryHook,  \* the slot's value when the wrapper was entered
    entryExc,   \* exception the wrapper's caller is handling at entry (sys.exc_info)
    old_trace,  \* wrapper local: the saved hook
    ctx,        \* the _TraceContext of this invocation
    stack,      \* frames of the traced call tree, innermost last
    inflight,   \* exception propagating inside the traced call tree
    rt,         \* every runtime event delivered so far, recorded or not
    nextId,     \* identity of the next frame object
    pending,    \* exception propagating in the wrapper's own frame
    raisedE,    \* exception the traced function raised out of its frame
    reports,    \* reports routed to output_trace, each with the arguments of its
                \* format_trace call and the context that call was made on
    file,       \* content of the log file, one entry per written chunk
    console,    \* what was printed to the console
    returned,   \* how each call of output_trace ended: the value returned or the exception raised
    outcome,    \* how the wrapper exited
    fmt,        \* walk state of _format_plain / _build_tree in the formatter harness
    nest        \* wrapper activations sharing the hook slot, innermost last

vars == <<pc, cfg, hook, entryHook, entryExc, old_trace, ctx, stack, inflight, rt,
          nextId, pending, raisedE, reports, file, console, returned, outcome, fmt, nest>>

----------------------------------------------------------------------------
(* Bounds *)

MaxDepth == 4       \* frames on the traced stack
MaxSteps == 5       \* runtime events after which the traced program only unwinds
MaxLogLen == 4      \* length of the event logs given to the formatter harness
MaxNest == 3        \* wrapper activations open at once on one hook slot
MaxCalls == 4       \* instrumented calls made in one run of nested calls

----------------------------------------------------------------------------
(* Values *)

None == "None"

\* an exception: its class name, its message, and the code unit of a __str__
\* written in Python by its class (None for the built-in one)
Exc(type, value, str_code) == [type |-> type, value |-> value, str_code |-> str_code]

NoExc == Exc(None, None, None)

NoInfo == [type |-> None, value |-> None, str_code |-> None,
           path |-> <<>>, line |-> 0, func |-> None]

Truthy(x) == x \notin {None, ""}

----------------------------------------------------------------------------
(* Paths: a path is its sequence of segments, "/" first when absolute *)

Cwd == <<"/", "home", "proj">>

SysPrefix == <<"/", "usr">>

BacktraceFile == <<"/", "home", "proj", "backtrace.py">>

AppFile == <<"/", "home", "proj", "app.py">>

StdlibFile == <<"/", "usr", "lib", "json.py">>

ToolFile == <<"/", "home", "proj", "usr", "tool.py">>

RichFile == <<"/", "home", "proj", "venv", "site-packages", "rich.py">>

\* `sub in s` on path strings
Contains(sub, s) ==
    \E i \in 0..(Len(s) - Len(sub)) : SubSeq(s, i + 1, i + Len(sub)) = sub

AbsPath(p) == IF Len(p) > 0 /\ p[1] = "/" THEN p ELSE Cwd \o p

RECURSIVE CommonLen(_, _)
CommonLen(a, b) ==
    IF a = <<>> \/ b = <<>> \/ Head(a) # Head(b) THEN 0
    ELSE 1 + CommonLen(Tail(a), Tail(b))

_get_relative_path(filepath) ==
    LET a == AbsPath(filepath)
        k == CommonLen(a, Cwd)
        ups == [i \in 1..(Len(Cwd) - k) |-> ".."]
        rel == ups \o SubSeq(a, k + 1, Len(a))
    IN IF rel = <<>> THEN <<".">> ELSE rel

_should_trace_without_prefix_rule(filepath) ==
    LET abspath == AbsPath(filepath)
    IN IF abspath = BacktraceFile THEN FALSE
       ELSE IF Contains(<<"site-packages">>, abspath) THEN FALSE
       ELSE IF Contains(<<"dist-packages">>, abspath) THEN FALSE
       ELSE TRUE

_should_trace(filepath) ==
    LET abspath == AbsPath(filepath)
    IN IF abspath = BacktraceFile THEN FALSE
       ELSE IF Contains(<<"site-packages">>, abspath) THEN FALSE
       ELSE IF Contains(<<"dist-packages">>, abspath) THEN FALSE
       ELSE IF Contains(SysPrefix, abspath) /\ ~Contains(Cwd, abspath) THEN FALSE
       ELSE TRUE

----------------------------------------------------------------------------
(* The traced program: code units, who calls whom, what they raise *)

CodeUnit(co_name, co_filename, firstlineno, lastlineno) ==
    [co_name |-> co_name, co_filename |-> co_filename, firstlineno |-> firstlineno,
     lastlineno |-> lastlineno, bound |-> None]

\* f and g are application code, h is standard-library code, m is the top level
\* of an application module that h runs, __str__ belongs to AppError
Code == [
    f |-> CodeUnit("f", AppFile, 10, 11),
    g |-> CodeUnit("g", AppFile, 20, 21),
    h |-> CodeUnit("h", StdlibFile, 30, 30),
    m |-> CodeUnit("<module>", ToolFile, 1, 1),
    __str__ |-> CodeUnit("__str__", AppFile, 5, 6),
    Tree |-> CodeUnit("__init__", RichFile, 50, 51),
    add |-> CodeUnit("add", RichFile, 60, 61),
    Panel |-> CodeUnit("__init__", RichFile, 70, 71),
    _build_tree |-> CodeUnit("_build_tree", BacktraceFile, 97, 125),
    _format_plain |-> CodeUnit("_format_plain", BacktraceFile, 127, 165),
    format_trace |-> CodeUnit("format_trace", BacktraceFile, 167, 189),
    output_trace |-> CodeUnit("output_trace", BacktraceFile, 191, 202),
    wrapper |-> CodeUnit("wrapper", BacktraceFile, 213, 234)]

Targets == {"f", "h"}

Callees(fn) ==
    CASE fn = "f" -> {"g", "f"}
      [] fn = "g" -> {"h"}
      [] fn = "h" -> {"m"}
      [] OTHER -> {}

\* the exception a function's body can raise, NoExc when it raises none
Raises(fn) ==
    CASE fn = "f" -> Exc("ValueError", "bad", None)
      [] fn = "m" -> Exc("AppError", "app error", "__str__")
      [] OTHER -> NoExc

SinkError == Exc("FileNotFoundError", "trace.log", None)

CallerError == Exc("RuntimeError", "unrelated", None)

NoFrame == [id |-> 0, fn |-> None, line |-> 0, trace |-> None]

\* a frame of backtrace.py itself, stopped at line `at`
FrameAt(fn, at) == [id |-> 1, fn |-> fn, line |-> at, trace |-> None]

\* the frame of the wrapper, stopped at its call of func
WrapperFrame == FrameAt("wrapper", 220)

_get_function_name(frame) ==
    LET code == Code[frame.fn]
    IN IF code.co_name = "<module>" /\ code.bound # None THEN code.bound
       ELSE code.co_name

----------------------------------------------------------------------------
(* _TraceContext *)

NewContext(target_code, log_file, return_trace, use_rich) ==
    [target_code |-> target_code, log_file |-> log_file,
     return_trace |-> return_trace, use_rich |-> use_rich,
     events |-> <<>>, exception_info |-> NoInfo,
     started |-> FALSE, root_frame |-> 0]

\* the context before the wrapper has built one
NoContext == NewContext(None, None, FALSE, FALSE)

Event(type, path, line, func, exc) ==
    [type |-> type, path |-> path, line |-> line, func |-> func, exc |-> exc]

GateOnEveryTargetFrame(self, frame) ==
    IF frame.fn = self.target_code
    THEN [self EXCEPT !.started = TRUE, !.root_frame = frame.id]
    ELSE self

\* trace_func, lines 68-70: the gate that starts the recording
Gate(self, frame) ==
    IF ~self.started /\ frame.fn = self.target_code
    THEN [self EXCEPT !.started = TRUE, !.root_frame = frame.id]
    ELSE self

\* trace_func, lines 75-77: the locals every branch below uses
Locals(frame) ==
    [lineno |-> frame.line,
     func_name |-> _get_function_name(frame),
     rel_path |-> _get_relative_path(Code[frame.fn].co_filename)]

RecordEventAtOwnLocation(self, l, frame, back, event, arg) ==
    CASE event \in {"call", "return"} ->
           [self EXCEPT !.events = Append(@,
                    Event(event, l.rel_path, l.lineno, l.func_name, NoExc))]
      [] event = "exception" ->
           [self EXCEPT
              !.exception_info = [type |-> arg.type, value |-> arg.value,
                                  str_code |-> arg.str_code,
                                  path |-> l.rel_path, line |-> l.lineno,
                                  func |-> l.func_name],
              !.events = Append(@,
                    Event("exception", l.rel_path, l.lineno, l.func_name, arg))]
      [] OTHER -> self

RecordEventKeepsFirstException(self, l, frame, back, event, arg) ==
    CASE event = "call" ->
           IF back # NoFrame /\ frame.id # self.root_frame
           THEN [self EXCEPT !.events = Append(@,
                    Event("call", _get_relative_path(Code[back.fn].co_filename),
                          back.line, l.func_name, NoExc))]
           ELSE [self EXCEPT !.events = Append(@,
                    Event("call", l.rel_path, l.lineno, l.func_name, NoExc))]
      [] event = "return" ->
           [self EXCEPT !.events = Append(@,
                    Event("return", l.rel_path, l.lineno, l.func_name, NoExc))]
      [] event = "exception" ->
           [self EXCEPT
              !.exception_info = IF @ # NoInfo THEN @
                                 ELSE [type |-> arg.type, value |-> arg.value,
                                       str_code |-> arg.str_code,
                                       path |-> l.rel_path, line |-> l.lineno,
                                       func |-> l.func_name],
              !.events = Append(@,
                    Event("exception", l.rel_path, l.lineno, l.func_name, arg))]
      [] OTHER -> self

\* trace_func, lines 79-93, with l the locals of lines 75-77
RecordEvent(self, l, frame, back, event, arg) ==
    CASE event = "call" ->
           IF back # NoFrame /\ frame.id # self.root_frame
           THEN [self EXCEPT !.events = Append(@,
                    Event("call", _get_relative_path(Code[back.fn].co_filename),
                          back.line, l.func_name, NoExc))]
           ELSE [self EXCEPT !.events = Append(@,
                    Event("call", l.rel_path, l.lineno, l.func_name, NoExc))]
      [] event = "return" ->
           [self EXCEPT !.events = Append(@,
                    Event("return", l.rel_path, l.lineno, l.func_name, NoExc))]
      [] event = "exception" ->
           [self EXCEPT
              !.exception_info = [type |-> arg.type, value |-> arg.value,
                                  str_code |-> arg.str_code,
                                  path |-> l.rel_path, line |-> l.lineno,
                                  func |-> l.func_name],
              !.events = Append(@,
                    Event("exception", l.rel_path, l.lineno, l.func_name, arg))]
      [] OTHER -> self

RecordSkipsRootReturn(self, frame, back, event, arg) ==
    IF event = "return" /\ frame.id = self.root_frame THEN self
    ELSE RecordEvent(self, Locals(frame), frame, back, event, arg)

\* trace_func, lines 75-93: what an event adds once the context has started
Record(self, frame, back, event, arg) ==
    RecordEvent(self, Locals(frame), frame, back, event, arg)

RecordsWhileWaiting(self, frame, back, event, arg) ==
    Record(self, frame, back, event, arg)

\* trace_func, lines 72-93: nothing is recorded before the gate has opened
Started(self, frame, back, event, arg) ==
    IF ~self.started THEN self ELSE Record(self, frame, back, event, arg)

trace_func_gates_before_filter(self, frame, back, event, arg) ==
    IF ~_should_trace(Code[frame.fn].co_filename)
    THEN [ctx |-> Gate(self, frame), ret |-> "trace_func"]
    ELSE [ctx |-> Started(Gate(self, frame), frame, back, event, arg),
          ret |-> "trace_func"]

trace_func_filters_calls_only(self, frame, back, event, arg) ==
    IF event = "call" /\ ~_should_trace(Code[frame.fn].co_filename)
    THEN [ctx |-> self, ret |-> "trace_func"]
    ELSE [ctx |-> Started(Gate(self, frame), frame, back, event, arg),
          ret |-> "trace_func"]

\* trace_func(self, frame, event, arg) with back = frame.f_back;
\* yields the context afterwards and the function handed back to the runtime
trace_func(self, frame, back, event, arg) ==
    IF ~_should_trace(Code[frame.fn].co_filename)
    THEN [ctx |-> self, ret |-> "trace_func"]
    ELSE [ctx |-> Started(Gate(self, frame), frame, back, event, arg),
          ret |-> "trace_func"]

----------------------------------------------------------------------------
(* The runtime's delivery of events (sys.settrace) *)

RtEvent(ev, fn) == [ev |-> ev, fn |-> fn]

Top == stack[Len(stack)]

\* frame.f_back of the frame at position i of the traced stack
Back(i) == IF i > 1 THEN stack[i - 1] ELSE WrapperFrame

\* a new frame is entered: the function in the global slot is called with 'call'
GlobalCall(self, frame, back) ==
    IF hook = "trace_func" THEN trace_func(self, frame, back, "call", NoExc)
    ELSE [ctx |-> self, ret |-> None]

\* an event in a running frame goes to the frame's local trace function
LocalEvent(self, frame, back, event, arg) ==
    IF frame.trace = "trace_func" THEN trace_func(self, frame, back, event, arg).ctx
    ELSE self

\* the frame object of a call of fn, before any event
NewFrame(fn) == [id |-> nextId, fn |-> fn, line |-> Code[fn].firstlineno, trace |-> None]

\* what the global function handed back becomes the frame's local trace function
Entered(frame, r) == [ctx |-> r.ctx, frame |-> [frame EXCEPT !.trace = r.ret]]

EnterFrame(self, frame, back) == Entered(frame, GlobalCall(self, frame, back))

\* frame `back` calls fn: the new frame and the context after its 'call' event
HelperEnter(self, fn, back) == EnterFrame(self, NewFrame(fn), back)

\* the frame of e returns to `back`, with the context as e.ctx by then
HelperLeave(e, back) ==
    LocalEvent(e.ctx, [e.frame EXCEPT !.line = Code[e.frame.fn].lastlineno], back,
               "return", NoExc)

\* a call that runs straight to its return
HelperCall(self, fn, back) == HelperLeave(HelperEnter(self, fn, back), back)

\* str(exc_value), evaluated by an f-string of frame `back`
Stringify(self, exc, back) ==
    IF exc.str_code = None THEN self ELSE HelperCall(self, exc.str_code, back)

----------------------------------------------------------------------------
(* Formatter: one record per output line, fields left blank when unused.
   Each function yields the context afterwards along with its result. *)

Line(glyph, indent, path, lineno, func, note, etype, evalue) ==
    [glyph |-> glyph, indent |-> indent, path |-> path, lineno |-> lineno,
     func |-> func, note |-> note, etype |-> etype, evalue |-> evalue]

Text(s) == Line(s, 0, <<>>, 0, "", "", "", "")

\* "    " * depth
Indent(depth) == IF depth > 0 THEN 4 * depth ELSE 0

PlainStepWithoutDedent(st, ev, is_failure) ==
    LET indent == Indent(st.depth)
    IN CASE ev.type = "call" ->
              [depth |-> st.depth + 1,
               lines |-> Append(st.lines,
                   Line("call", indent, ev.path, ev.line, ev.func, "", "", ""))]
         [] ev.type = "return" ->
              [st EXCEPT !.lines = Append(@,
                   Line("return", indent, ev.path, 0, ev.func, "", "", ""))]
         [] OTHER -> st

\* body of the loop of _format_plain: st = [depth, lines]
PlainStep(st, ev, is_failure) ==
    LET indent == Indent(st.depth)
    IN CASE ev.type = "call" ->
              [depth |-> st.depth + 1,
               lines |-> Append(st.lines,
                   Line("call", indent, ev.path, ev.line, ev.func, "", "", ""))]
         [] ev.type = "return" ->
              [depth |-> st.depth - 1,
               lines |-> Append(st.lines,
                   Line("return", Indent(st.depth - 1), ev.path, 0, ev.func, "", "", ""))]
         [] ev.type = "exception" ->
              IF is_failure
              THEN [st EXCEPT !.lines = Append(@,
                       Line("cross", indent, ev.path, ev.line, ev.func,
                            "<-- EXCEPTION HERE:", ev.exc.type, ev.exc.value))]
              ELSE [st EXCEPT !.lines = Append(@,
                       Line("warning", indent, ev.path, ev.line, ev.func,
                            "handled exception:", ev.exc.type, ""))]
         [] OTHER -> st

\* what that loop body does to the context: line 144 formats exc_value
PlainEffect(self, ev, is_failure) ==
    IF ev.type = "exception" /\ is_failure
    THEN Stringify(self, ev.exc, FrameAt("_format_plain", 144))
    ELSE self

PlainStart == [depth |-> 0, lines |-> <<>>]

\* the loop of _format_plain from index i on, over the list as it stands
RECURSIVE PlainWalk(_, _, _, _)
PlainWalk(self, st, i, is_failure) ==
    IF i > Len(self.events) THEN [self |-> self, st |-> st]
    ELSE PlainWalk(PlainEffect(self, self.events[i], is_failure),
                   PlainStep(st, self.events[i], is_failure), i + 1, is_failure)

Report(kind, lines, title, subtitle, border_style, nodes) ==
    [kind |-> kind, lines |-> lines, title |-> title, subtitle |-> subtitle,
     border_style |-> border_style, nodes |-> nodes]

\* lines 148-156 of _format_plain
PlainHeader(self, is_failure) ==
    IF is_failure /\ self.exception_info # NoInfo
    THEN Line("EXCEPTION:", 0, self.exception_info.path, self.exception_info.line,
              "", "at", self.exception_info.type, self.exception_info.value)
    ELSE IF self.events # <<>>
         THEN Line("EXECUTION TRACE (no exception)", 0,
                   self.events[1].path, self.events[1].line, "", "at", "", "")
         ELSE Text("EXECUTION TRACE (no exception)")

\* header and framing of _format_plain, lines 148-165, once the loop has left
\* the context as walked.self and the lines as walked.st.lines
PlainFinish(walked, status, is_failure) ==
    [self |-> IF is_failure /\ walked.self.exception_info # NoInfo
              THEN Stringify(walked.self, walked.self.exception_info,
                             FrameAt("_format_plain", 150))
              ELSE walked.self,
     out |-> Report("str",
                    <<PlainHeader(walked.self, is_failure), Text("=== BACKTRACE ===")>>
                      \o walked.st.lines \o
                      <<Text("================="),
                        Line("STATUS:", 0, <<>>, 0, "", status, "", "")>>,
                    Text(""), Text(""), "", <<>>)]

_format_plain(self, status, is_failure) ==
    PlainFinish(PlainWalk(self, PlainStart, 1, is_failure), status, is_failure)

TreeStepPopsUnguarded(st, ev, is_failure) ==
    LET top == st.stack[Len(st.stack)]
        add(label) == Append(st.nodes, [label |-> label, parent |-> top])
    IN CASE ev.type = "call" ->
              [nodes |-> add(Line("call", 0, ev.path, ev.line, ev.func, "", "", "")),
               stack |-> Append(st.stack, Len(st.nodes) + 1)]
         [] ev.type = "return" ->
              [nodes |-> add(Line("return", 0, ev.path, 0, ev.func, "", "", "")),
               stack |-> SubSeq(st.stack, 1, Len(st.stack) - 1)]
         [] OTHER -> st

\* body of the loop of _build_tree: st = [nodes, stack]; a node is its label
\* and the index of its parent, the stack holds node indices
TreeStep(st, ev, is_failure) ==
    LET top == st.stack[Len(st.stack)]
        add(label) == Append(st.nodes, [label |-> label, parent |-> top])
    IN CASE ev.type = "call" ->
              [nodes |-> add(Line("call", 0, ev.path, ev.line, ev.func, "", "", "")),
               stack |-> Append(st.stack, Len(st.nodes) + 1)]
         [] ev.type = "return" ->
              IF Len(st.stack) > 1
              THEN [nodes |-> add(Line("return", 0, ev.path, 0, ev.func, "", "", "")),
                    stack |-> SubSeq(st.stack, 1, Len(st.stack) - 1)]
              ELSE st
         [] ev.type = "exception" ->
              IF is_failure
              THEN [st EXCEPT !.nodes = add(Line("cross", 0, ev.path, ev.line, ev.func,
                                  "<-- EXCEPTION:", ev.exc.type, ev.exc.value))]
              ELSE [st EXCEPT !.nodes = add(Line("warning", 0, ev.path, ev.line, ev.func,
                                  "<-- handled exception:", ev.exc.type, ev.exc.value))]
         [] OTHER -> st

\* what that loop body does to the context: the labels of lines 120 and 122
\* format exc_value, and every node added is a call into the renderer
TreeEffect(self, st, ev, is_failure) ==
    IF ev.type = "return" /\ Len(st.stack) <= 1 THEN self
    ELSE HelperCall(IF ev.type = "exception"
                    THEN Stringify(self, ev.exc,
                             FrameAt("_build_tree", IF is_failure THEN 120 ELSE 122))
                    ELSE self,
                    "add",
                    FrameAt("_build_tree", CASE ev.type = "call" -> 110
                                             [] ev.type = "return" -> 115
                                             [] OTHER -> 123))

TreeStart(first_event) ==
    [nodes |-> <<[label |-> Line("call", 0, first_event.path, first_event.line,
                                 first_event.func, "", "", ""),
                  parent |-> 0]>>,
     stack |-> <<1>>]

\* the loop of _build_tree over evs, the copy self.events[1:] made when it starts
RECURSIVE TreeWalk(_, _, _, _)
TreeWalk(self, st, evs, is_failure) ==
    IF evs = <<>> THEN [self |-> self, nodes |-> st.nodes]
    ELSE TreeWalk(TreeEffect(self, st, Head(evs), is_failure),
                  TreeStep(st, Head(evs), is_failure), Tail(evs), is_failure)

_build_tree(self, is_failure) ==
    IF self.events = <<>>
    THEN [self |-> HelperCall(self, "Tree", FrameAt("_build_tree", 99)),
          nodes |-> <<[label |-> Text("No events captured"), parent |-> 0]>>]
    ELSE TreeWalk(HelperCall(self, "Tree", FrameAt("_build_tree", 103)),
                  TreeStart(self.events[1]), Tail(self.events), is_failure)

\* format_trace, lines 171-189: the panel around tree, titled from info, the
\* exception_info the call started with
Panel(info, is_failure, tree) ==
    [self |-> HelperCall(tree.self, "Panel", FrameAt("format_trace", 183)),
     out |-> IF is_failure /\ info # NoInfo
             THEN Report("panel", <<>>,
                         Line("EXCEPTION:", 0, <<>>, 0, "", "", info.type, ""),
                         Line("", 0, info.path, info.line, "", "at", "", info.value),
                         "red", tree.nodes)
             ELSE Report("panel", <<>>,
                         Text("EXECUTION TRACE"),
                         Text(IF info = NoInfo THEN "no exception"
                              ELSE "exception handled"),
                         "green", tree.nodes)]

format_trace(self, status, is_failure) ==
    IF ~self.use_rich THEN _format_plain(self, status, is_failure)
    ELSE Panel(self.exception_info, is_failure,
               _build_tree(IF is_failure /\ self.exception_info # NoInfo
                           THEN Stringify(self, self.exception_info,
                                          FrameAt("format_trace", 174))
                           ELSE self,
                           is_failure))

----------------------------------------------------------------------------
(* Output sink *)

\* str(x) of something that is not a str: the object's default text, not its rendering
Str(trace_output) ==
    IF trace_output.kind = "str" THEN trace_output
    ELSE Report("str", <<Text("<rich.panel.Panel object>")>>, Text(""), Text(""), "", <<>>)

Newline == Report("newline", <<>>, Text(""), Text(""), "", <<>>)

NoValue == Report(None, <<>>, Text(""), Text(""), "", <<>>)

OldContent == Report("str", <<Text("earlier run")>>, Text(""), Text(""), "", <<>>)

output_trace_truncating(self, trace_output, f, c, openable) ==
    IF self.return_trace
    THEN [ret |-> Str(trace_output), file |-> f, console |-> c, exc |-> NoExc]
    ELSE IF Truthy(self.log_file)
         THEN IF openable
              THEN [ret |-> NoValue, file |-> <<Str(trace_output), Newline>>,
                    console |-> c, exc |-> NoExc]
              ELSE [ret |-> NoValue, file |-> f, console |-> c, exc |-> SinkError]
         ELSE [ret |-> NoValue, file |-> f,
               console |-> Append(c, [via |-> "print", what |-> trace_output]),
               exc |-> NoExc]

\* output_trace(self, trace_output) on a sink in state (f, c); openable says whether
\* open(log_file, 'a') succeeds.  Yields the value returned, the sink afterwards
\* and the exception raised, if any.
output_trace(self, trace_output, f, c, openable) ==
    IF self.return_trace
    THEN [ret |-> Str(trace_output), file |-> f, console |-> c, exc |-> NoExc]
    ELSE IF Truthy(self.log_file)
         THEN IF openable
              THEN [ret |-> NoValue, file |-> f \o <<Str(trace_output), Newline>>,
                    console |-> c, exc |-> NoExc]
              ELSE [ret |-> NoValue, file |-> f, console |-> c, exc |-> SinkError]
         ELSE IF self.use_rich /\ trace_output.kind # "str"
              THEN [ret |-> NoValue, file |-> f,
                    console |-> Append(c, [via |-> "console.print", what |-> trace_output]),
                    exc |-> NoExc]
              ELSE [ret |-> NoValue, file |-> f,
                    console |-> Append(c, [via |-> "print", what |-> trace_output]),
                    exc |-> NoExc]

----------------------------------------------------------------------------
(* State *)

FmtIdle == [i |-> 0, st |-> PlainStart, status |-> None, is_failure |-> FALSE,
            outs |-> <<>>]

NoOutcome == [kind |-> None, exc |-> NoExc]

Configs == [func : Targets, log_file : {None, "trace.log"}, return_trace : BOOLEAN,
            trace_on_success : BOOLEAN, use_rich : BOOLEAN]

Init ==
    /\ pc = "idle"
    /\ cfg \in Configs
    /\ hook \in {None, "outer_hook"}
    /\ entryHook = hook
    /\ entryExc \in {NoExc, CallerError}
    /\ old_trace = None
    /\ ctx = NoContext
    /\ stack = <<>>
    /\ inflight = NoExc
    /\ rt = <<>>
    /\ nextId = 2
    /\ pending = NoExc
    /\ raisedE = NoExc
    /\ reports = <<>>
    /\ file = <<OldContent>>
    /\ console = <<>>
    /\ returned = <<>>
    /\ outcome = NoOutcome
    /\ fmt = FmtIdle
    /\ nest = <<>>

----------------------------------------------------------------------------
(* wrapper, lines 214-217 *)

Enter ==
    /\ pc = "idle"
    /\ ctx' = NewContext(cfg.func, cfg.log_file, cfg.return_trace, cfg.use_rich)
    /\ old_trace' = hook
    /\ hook' = "trace_func"
    /\ pc' = "call"
    /\ UNCHANGED <<cfg, entryHook, entryExc, stack, inflight, rt, nextId, pending,
                   raisedE, reports, file, console, returned, outcome, fmt, nest>>

(* wrapper, line 220: the call of func enters the target's frame *)
CallTarget ==
    /\ pc = "call"
    /\ \E e \in {HelperEnter(ctx, cfg.func, WrapperFrame)} :
          /\ ctx' = e.ctx
          /\ stack' = <<e.frame>>
    /\ rt' = Append(rt, RtEvent("call", cfg.func))
    /\ nextId' = nextId + 1
    /\ pc' = "run"
    /\ UNCHANGED <<cfg, hook, entryHook, entryExc, old_trace, inflight, pending,
                   raisedE, reports, file, console, returned, outcome, fmt, nest>>

(* the running frame calls fn *)
CallChild(fn) ==
    /\ pc = "run"
    /\ inflight = NoExc
    /\ Len(stack) < MaxDepth
    /\ Len(rt) < MaxSteps
    /\ fn \in Callees(Top.fn)
    /\ \E e \in {HelperEnter(ctx, fn, Top)} :
          /\ ctx' = e.ctx
          /\ stack' = Append(stack, e.frame)
    /\ rt' = Append(rt, RtEvent("call", fn))
    /\ nextId' = nextId + 1
    /\ UNCHANGED <<pc, cfg, hook, entryHook, entryExc, old_trace, inflight, pending,
                   raisedE, reports, file, console, returned, outcome, fmt, nest>>

(* the running frame moves to its next line *)
LineStep ==
    /\ pc = "run"
    /\ inflight = NoExc
    /\ Len(rt) < MaxSteps
    /\ Top.line < Code[Top.fn].lastlineno
    /\ LET frame == [Top EXCEPT !.line = @ + 1]
       IN /\ ctx' = LocalEvent(ctx, frame, Back(Len(stack)), "line", NoExc)
          /\ stack' = [stack EXCEPT ![Len(stack)] = frame]
    /\ rt' = Append(rt, RtEvent("line", Top.fn))
    /\ UNCHANGED <<pc, cfg, hook, entryHook, entryExc, old_trace, inflight, nextId,
                   pending, raisedE, reports, file, console, returned, outcome, fmt, nest>>

(* the running frame returns normally *)
Return ==
    /\ pc = "run"
    /\ inflight = NoExc
    /\ ctx' = LocalEvent(ctx, Top, Back(Len(stack)), "return", NoExc)
    /\ stack' = SubSeq(stack, 1, Len(stack) - 1)
    /\ rt' = Append(rt, RtEvent("return", Top.fn))
    /\ pc' = IF Len(stack) = 1 THEN "returned" ELSE "run"
    /\ UNCHANGED <<cfg, hook, entryHook, entryExc, old_trace, inflight, nextId,
                   pending, raisedE, reports, file, console, returned, outcome, fmt, nest>>

(* the running frame raises *)
Raise ==
    /\ pc = "run"
    /\ inflight = NoExc
    /\ Len(rt) < MaxSteps
    /\ Raises(Top.fn) # NoExc
    /\ inflight' = Raises(Top.fn)
    /\ ctx' = LocalEvent(ctx, Top, Back(Len(stack)), "exception", Raises(Top.fn))
    /\ rt' = Append(rt, RtEvent("exception", Top.fn))
    /\ UNCHANGED <<pc, cfg, hook, entryHook, entryExc, old_trace, stack, nextId,
                   pending, raisedE, reports, file, console, returned, outcome, fmt, nest>>

(* the running frame catches the exception *)
Handle ==
    /\ pc = "run"
    /\ inflight # NoExc
    /\ inflight' = NoExc
    /\ rt' = Append(rt, RtEvent("handle", Top.fn))
    /\ UNCHANGED <<pc, cfg, hook, entryHook, entryExc, old_trace, ctx, stack, nextId,
                   pending, raisedE, reports, file, console, returned, outcome, fmt, nest>>

(* the exception leaves the running frame: 'return' there, then 'exception' in
   its caller, or out of func into the wrapper *)
Unwind ==
    /\ pc = "run"
    /\ inflight # NoExc
    /\ \E left \in {LocalEvent(ctx, Top, Back(Len(stack)), "return", NoExc)} :
          IF Len(stack) > 1
          THEN /\ ctx' = LocalEvent(left, stack[Len(stack) - 1], Back(Len(stack) - 1),
                                    "exception", inflight)
               /\ rt' = rt \o <<RtEvent("return", Top.fn),
                                RtEvent("exception", stack[Len(stack) - 1].fn)>>
               /\ UNCHANGED <<pc, inflight, pending, raisedE>>
          ELSE /\ ctx' = left
               /\ rt' = Append(rt, RtEvent("return", Top.fn))
               /\ pc' = "raised"
               /\ pending' = inflight
               /\ raisedE' = inflight
               /\ inflight' = NoExc
    /\ stack' = SubSeq(stack, 1, Len(stack) - 1)
    /\ UNCHANGED <<cfg, hook, entryHook, entryExc, old_trace, nextId, reports, file,
                   console, returned, outcome, fmt, nest>>

\* format_trace then output_trace, called from lines `at` and `at + 1` of the
\* wrapper: the report is formatted, routed to the sink, and an exception the
\* sink raises propagates in the wrapper's frame
Emit(status, is_failure, at, openable) ==
    \E fe \in {HelperEnter(ctx, "format_trace", FrameAt("wrapper", at))} :
    \E ft \in {format_trace(fe.ctx, status, is_failure)} :
    \E oe \in {HelperEnter(HelperLeave([ctx |-> ft.self, frame |-> fe.frame],
                                       FrameAt("wrapper", at)),
                           "output_trace", FrameAt("wrapper", at + 1))} :
    \E r \in {output_trace(oe.ctx, ft.out, file, console, openable)} :
        /\ reports' = Append(reports, [status |-> status, is_failure |-> is_failure,
                                       self |-> ctx, out |-> ft.out])
        /\ ctx' = HelperLeave(oe, FrameAt("wrapper", at + 1))
        /\ file' = r.file
        /\ console' = r.console
        /\ returned' = Append(returned, [ret |-> r.ret, exc |-> r.exc])
        /\ pending' = IF r.exc # NoExc THEN r.exc ELSE pending

(* wrapper, lines 222-226 with trace_on_success: format PASS, route it, return *)
EmitPass ==
    /\ pc = "returned"
    /\ cfg.trace_on_success
    /\ \E openable \in BOOLEAN : Emit("PASS", FALSE, 223, openable)
    /\ pc' = "finally"
    /\ UNCHANGED <<cfg, hook, entryHook, entryExc, old_trace, stack, inflight, rt,
                   nextId, raisedE, outcome, fmt, nest>>

(* wrapper, lines 222-226 without trace_on_success *)
SkipPass ==
    /\ pc = "returned"
    /\ ~cfg.trace_on_success
    /\ pc' = "finally"
    /\ UNCHANGED <<cfg, hook, entryHook, entryExc, old_trace, ctx, stack, inflight, rt,
                   nextId, pending, raisedE, reports, file, console, returned,
                   outcome, fmt, nest>>

RestoreClears ==
    /\ pc \in {"finally", "raised"}
    /\ hook' = None
    /\ pc' = "restored"
    /\ UNCHANGED <<cfg, entryHook, entryExc, old_trace, ctx, stack, inflight, rt,
                   nextId, pending, raisedE, reports, file, console, returned,
                   outcome, fmt, nest>>

(* wrapper, line 229 *)
Restore ==
    /\ pc \in {"finally", "raised"}
    /\ hook' = old_trace
    /\ pc' = "restored"
    /\ UNCHANGED <<cfg, entryHook, entryExc, old_trace, ctx, stack, inflight, rt,
                   nextId, pending, raisedE, reports, file, console, returned,
                   outcome, fmt, nest>>

\* sys.exc_info() in the finally block: the exception leaving the try block, else
\* the one an older frame is handling
exc_info == IF pending # NoExc THEN pending ELSE entryExc

EmitFailBeforeRestore ==
    /\ pc \in {"raised", "restored"}
    /\ exc_info.type # None
    /\ \E openable \in BOOLEAN : Emit("FAIL", TRUE, 233, openable)
    /\ pc' = "exit"
    /\ UNCHANGED <<cfg, hook, entryHook, entryExc, old_trace, stack, inflight, rt,
                   nextId, raisedE, outcome, fmt, nest>>

(* wrapper, lines 231-234 with an exception indicated: format FAIL, route it *)
EmitFail ==
    /\ pc = "restored"
    /\ exc_info.type # None
    /\ \E openable \in BOOLEAN : Emit("FAIL", TRUE, 233, openable)
    /\ pc' = "exit"
    /\ UNCHANGED <<cfg, hook, entryHook, entryExc, old_trace, stack, inflight, rt,
                   nextId, raisedE, outcome, fmt, nest>>

(* wrapper, lines 231-232 with no exception indicated *)
NoFail ==
    /\ pc = "restored"
    /\ exc_info.type = None
    /\ pc' = "exit"
    /\ UNCHANGED <<cfg, hook, entryHook, entryExc, old_trace, ctx, stack, inflight, rt,
                   nextId, pending, raisedE, reports, file, console, returned,
                   outcome, fmt, nest>>

(* the wrapper's frame is left: by `return result` or by the exception in flight *)
Exit ==
    /\ pc = "exit"
    /\ outcome' = IF pending # NoExc THEN [kind |-> "raise", exc |-> pending]
                  ELSE [kind |-> "return", exc |-> NoExc]
    /\ pc' = "done"
    /\ UNCHANGED <<cfg, hook, entryHook, entryExc, old_trace, ctx, stack, inflight, rt,
                   nextId, pending, raisedE, reports, file, console, returned, fmt, nest>>

Next ==
    \/ Enter
    \/ CallTarget
    \/ \E fn \in DOMAIN Code : CallChild(fn)
    \/ LineStep
    \/ Return
    \/ Raise
    \/ Handle
    \/ Unwind
    \/ EmitPass
    \/ SkipPass
    \/ Restore
    \/ EmitFail
    \/ NoFail
    \/ Exit

Spec == Init /\ [][Next]_vars

----------------------------------------------------------------------------
(* _format_plain on its own, on an arbitrary event log, one loop iteration at a
   time; no trace hook is installed *)

LogEvents == {
    Event("call", <<"app.py">>, 10, "f", NoExc),
    Event("call", <<"app.py">>, 11, "g", NoExc),
    Event("return", <<"app.py">>, 21, "g", NoExc),
    Event("exception", <<"app.py">>, 21, "g", Exc("ValueError", "bad", None))}

Logs == UNION {[1..n -> LogEvents] : n \in 0..MaxLogLen}

\* exception_info as trace_func leaves it after recording evs
RECURSIVE LastInfo(_)
LastInfo(evs) ==
    IF evs = <<>> THEN NoInfo
    ELSE LET e == evs[Len(evs)]
         IN IF e.type = "exception"
            THEN [type |-> e.exc.type, value |-> e.exc.value, str_code |-> e.exc.str_code,
                  path |-> e.path, line |-> e.line, func |-> e.func]
            ELSE LastInfo(SubSeq(evs, 1, Len(evs) - 1))

FmtInit ==
    /\ pc = "fmt"
    /\ cfg = [func |-> "f", log_file |-> None, return_trace |-> TRUE,
              trace_on_success |-> TRUE, use_rich |-> FALSE]
    /\ hook = None
    /\ entryHook = None
    /\ entryExc = NoExc
    /\ old_trace = None
    /\ \E log \in Logs :
         ctx = [NewContext("f", None, TRUE, FALSE) EXCEPT
                  !.events = log, !.exception_info = LastInfo(log),
                  !.started = (log # <<>>),
                  !.root_frame = IF log # <<>> THEN 2 ELSE 0]
    /\ stack = <<>>
    /\ inflight = NoExc
    /\ rt = <<>>
    /\ nextId = 3
    /\ pending = NoExc
    /\ raisedE = NoExc
    /\ reports = <<>>
    /\ file = <<OldContent>>
    /\ console = <<>>
    /\ returned = <<>>
    /\ outcome = NoOutcome
    /\ nest = <<>>
    /\ \E mode \in {[status |-> "PASS", is_failure |-> FALSE],
                    [status |-> "FAIL", is_failure |-> TRUE]} :
         fmt = [i |-> 1, st |-> PlainStart, status |-> mode.status,
                is_failure |-> mode.is_failure, outs |-> <<>>]

(* _format_plain, lines 131-146: one iteration of the loop *)
FormatPlainLoop ==
    /\ pc = "fmt"
    /\ fmt.i <= Len(ctx.events)
    /\ ctx' = PlainEffect(ctx, ctx.events[fmt.i], fmt.is_failure)
    /\ fmt' = [fmt EXCEPT !.st = PlainStep(fmt.st, ctx.events[fmt.i], fmt.is_failure),
                          !.i = @ + 1]
    /\ UNCHANGED <<pc, cfg, hook, entryHook, entryExc, old_trace, stack, inflight, rt,
                   nextId, pending, raisedE, reports, file, console, returned, outcome,
                   nest>>

(* _format_plain, lines 148-165: the loop is over *)
FormatPlainFinish ==
    /\ pc = "fmt"
    /\ fmt.i > Len(ctx.events)
    /\ \E done \in {PlainFinish([self |-> ctx, st |-> fmt.st], fmt.status,
                                  fmt.is_failure)} :
          /\ ctx' = done.self
          /\ fmt' = [fmt EXCEPT !.outs = Append(@, done.out.lines)]
    /\ pc' = "fmt_done"
    /\ UNCHANGED <<cfg, hook, entryHook, entryExc, old_trace, stack, inflight, rt,
                   nextId, pending, raisedE, reports, file, console, returned, outcome,
                   nest>>

FmtNext == FormatPlainLoop \/ FormatPlainFinish

FmtSpec == FmtInit /\ [][FmtNext]_vars

----------------------------------------------------------------------------
(* _build_tree on its own, on an arbitrary non-empty event log, one loop
   iteration at a time; no trace hook is installed *)

TreeInit ==
    /\ pc = "tree"
    /\ cfg = [func |-> "f", log_file |-> None, return_trace |-> TRUE,
              trace_on_success |-> TRUE, use_rich |-> TRUE]
    /\ hook = None
    /\ entryHook = None
    /\ entryExc = NoExc
    /\ old_trace = None
    /\ \E log \in Logs \ {<<>>} :
         /\ ctx = [NewContext("f", None, TRUE, TRUE) EXCEPT
                     !.events = log, !.exception_info = LastInfo(log),
                     !.started = TRUE, !.root_frame = 2]
         /\ \E is_failure \in BOOLEAN :
              fmt = [i |-> 2, st |-> TreeStart(log[1]), status |-> None,
                     is_failure |-> is_failure, outs |-> <<>>]
    /\ stack = <<>>
    /\ inflight = NoExc
    /\ rt = <<>>
    /\ nextId = 3
    /\ pending = NoExc
    /\ raisedE = NoExc
    /\ reports = <<>>
    /\ file = <<OldContent>>
    /\ console = <<>>
    /\ returned = <<>>
    /\ outcome = NoOutcome
    /\ nest = <<>>

(* _build_tree, lines 107-123: one iteration of the loop *)
BuildTreeLoop ==
    /\ pc = "tree"
    /\ fmt.i <= Len(ctx.events)
    /\ ctx' = TreeEffect(ctx, fmt.st, ctx.events[fmt.i], fmt.is_failure)
    /\ fmt' = [fmt EXCEPT !.st = TreeStep(fmt.st, ctx.events[fmt.i], fmt.is_failure),
                          !.i = @ + 1]
    /\ UNCHANGED <<pc, cfg, hook, entryHook, entryExc, old_trace, stack, inflight, rt,
                   nextId, pending, raisedE, reports, file, console, returned, outcome,
                   nest>>

(* _build_tree, line 125: the loop is over *)
BuildTreeFinish ==
    /\ pc = "tree"
    /\ fmt.i > Len(ctx.events)
    /\ fmt' = [fmt EXCEPT !.outs = Append(@, fmt.st.nodes)]
    /\ pc' = "tree_done"
    /\ UNCHANGED <<cfg, hook, entryHook, entryExc, old_trace, ctx, stack, inflight, rt,
                   nextId, pending, raisedE, reports, file, console, returned, outcome,
                   nest>>

TreeNext == BuildTreeLoop \/ BuildTreeFinish

TreeSpec == TreeInit /\ [][TreeNext]_vars

----------------------------------------------------------------------------
(* Instrumented calls made inside instrumented calls, all on one hook slot and
   one thread: lines 214-217 and 229 of each wrapper activation.  An activation
   is [call, entry, old_trace, at, raised]: the number of the call, the slot's
   value when the wrapper was entered, the wrapper's local old_trace, where the
   wrapper stands, and whether its try block was left by an exception. *)

\* the trace_func bound method of the context the k-th call builds
TraceFuncOf(k) == "trace_func@" \o ToString(k)

Innermost == nest[Len(nest)]

NestInit ==
    /\ pc = "nest"
    /\ cfg = [func |-> "f", log_file |-> None, return_trace |-> FALSE,
              trace_on_success |-> TRUE, use_rich |-> FALSE]
    /\ hook \in {None, "outer_hook"}
    /\ entryHook = hook
    /\ entryExc = NoExc
    /\ old_trace = None
    /\ ctx = NoContext
    /\ stack = <<>>
    /\ inflight = NoExc
    /\ rt = <<>>
    /\ nextId = 1
    /\ pending = NoExc
    /\ raisedE = NoExc
    /\ reports = <<>>
    /\ file = <<OldContent>>
    /\ console = <<>>
    /\ returned = <<>>
    /\ outcome = NoOutcome
    /\ fmt = FmtIdle
    /\ nest = <<>>

NestEnterSavesFirstHook ==
    /\ pc = "nest"
    /\ nextId <= MaxCalls
    /\ Len(nest) < MaxNest
    /\ nest # <<>> => Innermost.at = "func"
    /\ nest' = Append(nest, [call |-> nextId, entry |-> hook, old_trace |-> entryHook,
                             at |-> "func", raised |-> FALSE])
    /\ hook' = TraceFuncOf(nextId)
    /\ nextId' = nextId + 1
    /\ rt' = Append(rt, RtEvent("settrace", TraceFuncOf(nextId)))
    /\ UNCHANGED <<pc, cfg, entryHook, entryExc, old_trace, ctx, stack, inflight,
                   pending, raisedE, reports, file, console, returned, outcome, fmt>>

(* wrapper, lines 214-217: an instrumented function is called, from the top
   level or by the function running in the innermost activation *)
NestEnter ==
    /\ pc = "nest"
    /\ nextId <= MaxCalls
    /\ Len(nest) < MaxNest
    /\ nest # <<>> => Innermost.at = "func"
    /\ nest' = Append(nest, [call |-> nextId, entry |-> hook, old_trace |-> hook,
                             at |-> "func", raised |-> FALSE])
    /\ hook' = TraceFuncOf(nextId)
    /\ nextId' = nextId + 1
    /\ rt' = Append(rt, RtEvent("settrace", TraceFuncOf(nextId)))
    /\ UNCHANGED <<pc, cfg, entryHook, entryExc, old_trace, ctx, stack, inflight,
                   pending, raisedE, reports, file, console, returned, outcome, fmt>>

(* wrapper, lines 220-226: func returns, or raises, and the try block is left *)
NestFuncEnds ==
    /\ pc = "nest"
    /\ nest # <<>>
    /\ Innermost.at = "func"
    /\ \E raised \in BOOLEAN :
         nest' = [nest EXCEPT ![Len(nest)].at = "finally",
                              ![Len(nest)].raised = raised]
    /\ UNCHANGED <<pc, cfg, hook, entryHook, entryExc, old_trace, ctx, stack, inflight,
                   rt, nextId, pending, raisedE, reports, file, console, returned,
                   outcome, fmt>>

(* wrapper, line 229 *)
NestRestore ==
    /\ pc = "nest"
    /\ nest # <<>>
    /\ Innermost.at = "finally"
    /\ hook' = Innermost.old_trace
    /\ nest' = [nest EXCEPT ![Len(nest)].at = "restored"]
    /\ rt' = Append(rt, RtEvent("settrace", Innermost.old_trace))
    /\ UNCHANGED <<pc, cfg, entryHook, entryExc, old_trace, ctx, stack, inflight,
                   nextId, pending, raisedE, reports, file, console, returned,
                   outcome, fmt>>

(* wrapper, lines 231-234, then the wrapper's frame is left: by an exception
   when the try block raised or the sink does, else by return.  An exception
   reaches the function that made the call, which handles it or not. *)
NestExit ==
    /\ pc = "nest"
    /\ nest # <<>>
    /\ Innermost.at = "restored"
    /\ \E raises \in (IF Innermost.raised THEN {TRUE} ELSE BOOLEAN), handled \in BOOLEAN :
         nest' = IF Len(nest) > 1 /\ raises /\ ~handled
                 THEN [SubSeq(nest, 1, Len(nest) - 1) EXCEPT
                          ![Len(nest) - 1].at = "finally",
                          ![Len(nest) - 1].raised = TRUE]
                 ELSE SubSeq(nest, 1, Len(nest) - 1)
    /\ UNCHANGED <<pc, cfg, hook, entryHook, entryExc, old_trace, ctx, stack, inflight,
                   rt, nextId, pending, raisedE, reports, file, console, returned,
                   outcome, fmt>>

NestNext == NestEnter \/ NestFuncEnds \/ NestRestore \/ NestExit

NestSpec == NestInit /\ [][NestNext]_vars

----------------------------------------------------------------------------
(* Properties *)

Count(seq, Test(_)) == Cardinality({i \in DOMAIN seq : Test(seq[i])})

Last(seq) == seq[Len(seq)]

\* the runtime events of the traced call, line events left out
Steps(r) == SelectSeq(r, LAMBDA e : e.ev # "line")

\* how many line events fn has had among the first k runtime events
LinesBefore(fn, k) == Cardinality({i \in 1..k : rt[i] = RtEvent("line", fn)})

\* the tokens of a report, whatever its presentation
Words(out) ==
    LET of(l) == {l.glyph, l.func, l.note, l.etype, l.evalue}
    IN UNION ({of(out.lines[i]) : i \in DOMAIN out.lines}
              \cup {of(out.nodes[i].label) : i \in DOMAIN out.nodes}
              \cup {of(out.title), of(out.subtitle), {out.border_style}})

\* the lines of a plain report between its two rules
Body(out) == SubSeq(out.lines, 3, Len(out.lines) - 2)

\* C1: when the wrapper has exited, by return or by exception, the trace-hook
\* slot holds the value it held when the wrapper was entered.
C1_HookRestored ==
    pc \in {"exit", "done"} => hook = entryHook

C1_Witness ==
    /\ pc = "done"
    /\ entryHook = "outer_hook"
    /\ outcome.kind = "raise"
    /\ raisedE # NoExc

\* C2: if the traced function raises E, exactly one report is routed to the
\* sink, it is a FAIL report formatted with is_failure, and the exception that
\* leaves the wrapper is E.
C2_OneFailReportAndSameException ==
    (pc = "done" /\ raisedE # NoExc) =>
        /\ Len(reports) = 1
        /\ reports[1].status = "FAIL"
        /\ reports[1].is_failure
        /\ outcome = [kind |-> "raise", exc |-> raisedE]

\* C3: every PASS report contains the word PASS, in rich and in plain mode.
C3_PassReportSaysPass ==
    \A i \in DOMAIN reports :
        reports[i].status = "PASS" => "PASS" \in Words(reports[i].out)

\* C4: if the traced function returns normally and the sink does not raise,
\* the wrapper emits one report with trace_on_success and none without, and
\* never a FAIL report, whatever exception its caller is handling.
C4_NormalReturnReportCount ==
    (pc = "done" /\ raisedE = NoExc /\ outcome.kind = "return") =>
        /\ Len(reports) = IF cfg.trace_on_success THEN 1 ELSE 0
        /\ \A i \in DOMAIN reports : reports[i].status # "FAIL"

TwoLevelRun ==
    <<RtEvent("call", "f"), RtEvent("call", "g"),
      RtEvent("return", "g"), RtEvent("return", "f")>>

\* the log of the two-level run up to the child's return
TwoLevelLog ==
    LET k == CHOOSE i \in DOMAIN rt : rt[i] = RtEvent("call", "g")
    IN <<Event("call", <<"app.py">>, 10, "f", NoExc),
         Event("call", <<"app.py">>, 10 + LinesBefore("f", k), "g", NoExc),
         Event("return", <<"app.py">>, 20 + LinesBefore("g", Len(rt)), "g", NoExc)>>

\* C5 as stated: when target f calls one traceable child g and both return, the
\* log the PASS report is formatted from is Call(f), Call(g) at its call site in
\* f, Return(g), with no Return(f).
C5_LogOmitsRootReturn ==
    \A i \in DOMAIN reports :
        (reports[i].status = "PASS" /\ cfg.func = "f" /\ Steps(rt) = TwoLevelRun) =>
            reports[i].self.events = TwoLevelLog

\* C5 amended: in that run the log is Call(f), Call(g) at its call site in f,
\* Return(g), Return(f): the root call's return is recorded as the last event.
C5_LogEndsWithRootReturn ==
    \A i \in DOMAIN reports :
        (reports[i].status = "PASS" /\ cfg.func = "f" /\ Steps(rt) = TwoLevelRun) =>
            reports[i].self.events =
                Append(TwoLevelLog,
                       Event("return", <<"app.py">>, 10 + LinesBefore("f", Len(rt)),
                             "f", NoExc))

C5_Witness ==
    /\ reports # <<>>
    /\ reports[1].status = "PASS"
    /\ cfg.func = "f"
    /\ Steps(rt) = TwoLevelRun
    /\ reports[1].self.events[2].line = 11

ThreeLevelRun ==
    <<RtEvent("call", "f"), RtEvent("call", "g"), RtEvent("call", "h"),
      RtEvent("return", "h"), RtEvent("return", "g"), RtEvent("return", "f")>>

\* C6: when f calls g and g calls the standard-library function h and all
\* return, the body of the plain report has 2 call lines and 2 return lines,
\* all of f and g, and no line for h.
C6_StdlibChildNotInBody ==
    \A i \in DOMAIN reports :
        (reports[i].out.kind = "str" /\ cfg.func = "f" /\ Steps(rt) = ThreeLevelRun) =>
            LET body == Body(reports[i].out)
            IN /\ Count(body, LAMBDA l : l.glyph = "call") = 2
               /\ Count(body, LAMBDA l : l.glyph = "return") = 2
               /\ Len(body) = 4
               /\ \A j \in DOMAIN body :
                    body[j].func \in {"f", "g"} /\ body[j].path = <<"app.py">>

C6_Witness ==
    /\ reports # <<>>
    /\ reports[1].out.kind = "str"
    /\ cfg.func = "f"
    /\ Steps(rt) = ThreeLevelRun

\* every prefix of log has at least as many Call events as Return events
CallsCoverReturns(log) ==
    \A k \in 0..Len(log) :
        Count(SubSeq(log, 1, k), LAMBDA e : e.type = "return")
            <= Count(SubSeq(log, 1, k), LAMBDA e : e.type = "call")

\* every Call of log has a matching later Return, properly nested
Balanced(log) ==
    /\ CallsCoverReturns(log)
    /\ Count(log, LAMBDA e : e.type = "return") = Count(log, LAMBDA e : e.type = "call")

\* C7: on a log whose Calls and Returns are properly nested, the depth counter
\* of _format_plain is never negative and is 0 once the last event is processed.
C7_DepthReturnsToZero ==
    (pc = "fmt" /\ Balanced(ctx.events)) =>
        /\ fmt.st.depth >= 0
        /\ fmt.i > Len(ctx.events) => fmt.st.depth = 0

C7_Witness ==
    /\ pc = "fmt"
    /\ Balanced(ctx.events)
    /\ Len(ctx.events) = 4
    /\ ctx.events[1].type = "call"
    /\ ctx.events[2].type = "call"
    /\ fmt.i > Len(ctx.events)

\* C8: whenever the wrapper formats a report, every prefix of the event log has
\* at least as many Call events as Return events.
C8_ReturnsNeverExceedCalls ==
    \A i \in DOMAIN reports : CallsCoverReturns(reports[i].self.events)

\* a FAIL report after an exception of m has unwound through h, g and f
C8_Witness ==
    /\ reports # <<>>
    /\ reports[1].status = "FAIL"
    /\ raisedE.type = "AppError"
    /\ Count(reports[1].self.events, LAMBDA e : e.type = "exception") = 3
    /\ Count(reports[1].self.events, LAMBDA e : e.type = "return") = 3

\* C9: formatting leaves the context as it was, and formatting again gives the
\* same report.
C9_FormattingIsPure ==
    reports # <<>> =>
        /\ ctx = Last(reports).self
        /\ format_trace(ctx, Last(reports).status, Last(reports).is_failure).out
               = Last(reports).out

\* C10 as stated: each call of output_trace does one of three things, return_trace
\* first, then log_file, then the console: it returns the stringified report and
\* touches neither file nor console; or it appends the report and a newline to
\* the file and prints nothing; or it prints the report and touches no file.
C10_OneDisposition ==
    [][Len(reports') = Len(reports) + 1 =>
         LET out == Last(reports').out
         IN IF ctx.return_trace
            THEN /\ Last(returned') = [ret |-> Str(out), exc |-> NoExc]
                 /\ file' = file /\ console' = console
            ELSE IF ctx.log_file # None
                 THEN /\ file' = file \o <<Str(out), Newline>>
                      /\ console' = console
                 ELSE /\ console' = Append(console, Last(console'))
                      /\ Last(console').what = out
                      /\ file' = file]_vars

\* C10 amended: the same, except that a call whose log file cannot be opened
\* raises and leaves file and console as they were.
C10_OneDispositionUnlessOpenFails ==
    [][Len(reports') = Len(reports) + 1 =>
         LET out == Last(reports').out
         IN IF ctx.return_trace
            THEN /\ Last(returned') = [ret |-> Str(out), exc |-> NoExc]
                 /\ file' = file /\ console' = console
            ELSE IF ctx.log_file # None
                 THEN /\ \/ /\ Last(returned').exc = NoExc
                            /\ file' = file \o <<Str(out), Newline>>
                         \/ /\ Last(returned').exc = SinkError
                            /\ file' = file
                      /\ Last(returned').ret = NoValue
                      /\ console' = console
                 ELSE /\ Last(returned') = [ret |-> NoValue, exc |-> NoExc]
                      /\ console' = Append(console, Last(console'))
                      /\ Last(console').what = out
                      /\ file' = file]_vars

C10_Witness ==
    /\ Len(reports) = 1
    /\ ~ctx.return_trace
    /\ ctx.log_file = "trace.log"
    /\ file = <<OldContent, Str(reports[1].out), Newline>>

\* C11: for nested instrumented calls on one hook slot, hooks are restored in
\* reverse order of installation: while the function of the innermost open
\* wrapper runs the slot holds that wrapper's trace_func; a wrapper entered
\* inside another found the outer context's trace_func in the slot; once a
\* wrapper has restored, the slot holds what it held when that wrapper was
\* entered, whether its call returned or raised; with every wrapper exited
\* the slot holds its first value.
C11_NestedHooksRestoredInReverse ==
    pc = "nest" =>
        /\ nest = <<>> => hook = entryHook
        /\ \A i \in DOMAIN nest :
             /\ i > 1 => nest[i].entry = TraceFuncOf(nest[i - 1].call)
             /\ i = 1 => nest[i].entry = entryHook
        /\ nest # <<>> =>
             /\ Innermost.at \in {"func", "finally"} => hook = TraceFuncOf(Innermost.call)
             /\ Innermost.at = "restored" => hook = Innermost.entry

\* the inner of two nested wrappers has raised and restored, under a foreign hook
C11_Witness ==
    /\ pc = "nest"
    /\ Len(nest) = 2
    /\ entryHook = "outer_hook"
    /\ Innermost.at = "restored"
    /\ Innermost.raised
    /\ hook = TraceFuncOf(nest[1].call)

\* C12: the context goes from started = FALSE to started = TRUE only on the
\* Call event of a traceable frame running the target's code, and root_frame is
\* set to that frame then; once started it stays started and root_frame never
\* changes, also when the target is called again recursively.
C12_StartsOnceOnTargetCall ==
    [][/\ (~ctx.started /\ ctx'.started) =>
            /\ rt' = Append(rt, RtEvent("call", ctx.target_code))
            /\ _should_trace(Code[ctx.target_code].co_filename)
            /\ stack'[Len(stack')].fn = ctx.target_code
            /\ ctx'.root_frame = stack'[Len(stack')].id
       /\ ctx.started => (ctx'.started /\ ctx'.root_frame = ctx.root_frame)
       /\ ~ctx'.started => ctx'.root_frame = 0]_vars

\* the target f runs a second time, called by itself, under the first root frame
C12_Witness ==
    /\ ctx.started
    /\ Len(stack) >= 2
    /\ stack[1].fn = "f"
    /\ stack[2].fn = "f"
    /\ ctx.root_frame = stack[1].id
    /\ Len(ctx.events) >= 2

\* the runtime events a step delivers
Delivered == {rt'[i] : i \in (Len(rt) + 1)..Len(rt')}

\* C13: an event of a frame whose file is not traceable leaves the context as it
\* was, also when the frame runs the target's code, and trace_func is still
\* handed back as the frame's local trace function; so the log never holds an
\* event of the standard-library function h, while the Call of the traceable m
\* that h makes is recorded.
C13_UntraceableFrameLeavesContext ==
    /\ [](pc = "run" =>
            /\ \A i \in DOMAIN stack : stack[i].trace = "trace_func"
            /\ \A i \in DOMAIN ctx.events : ctx.events[i].func # Code.h.co_name)
    /\ [][/\ (/\ Delivered # {}
              /\ \A d \in Delivered : ~_should_trace(Code[d.fn].co_filename))
             => ctx' = ctx
          /\ (Delivered = {RtEvent("call", "m")} /\ ctx.started)
             => /\ Len(ctx'.events) = Len(ctx.events) + 1
                /\ ctx'.events[Len(ctx'.events)].func = Code.m.co_name]_vars

\* f called g, g called h, h ran the module m: m's Call is in the log, at its
\* call site in h's file, and nothing of h is
C13_Witness ==
    /\ pc = "run"
    /\ cfg.func = "f"
    /\ Len(stack) = 4
    /\ stack[3].fn = "h"
    /\ stack[4].fn = "m"
    /\ Len(ctx.events) = 3
    /\ ctx.events[3] = Event("call", <<"..", "..", "usr", "lib", "json.py">>, 30,
                             "<module>", NoExc)

\* the events a step adds to the log
Added == SubSeq(ctx'.events, Len(ctx.events) + 1, Len(ctx'.events))

\* an event of frame fr at fr's own path and line
Own(type, fr, exc) ==
    Event(type, _get_relative_path(Code[fr.fn].co_filename), fr.line,
          _get_function_name(fr), exc)

\* an event of frame fr at the path and line where frame site stands
At(type, site, fr, exc) ==
    Event(type, _get_relative_path(Code[site.fn].co_filename), site.line,
          _get_function_name(fr), exc)

\* evs if fr's file is traceable, nothing otherwise
IfTraceable(fr, evs) == IF _should_trace(Code[fr.fn].co_filename) THEN evs ELSE <<>>

\* C14: once the context has started, the Call of a frame other than the root
\* frame is logged at the path and current line of its caller, recursive calls
\* of the target included; the Call of the root frame is logged at its own path
\* and line; Return and Exception events are logged at the frame's own path and
\* line.
C14_CallsLoggedAtCallSite ==
    [][LET D == SubSeq(rt', Len(rt) + 1, Len(rt'))
           new == stack'[Len(stack')]
       IN /\ (pc = "call" /\ ctx'.started) =>
                 Added = <<Own("call", new, NoExc)>>
          /\ (pc = "run" /\ ctx.started /\ Len(D) = 1 /\ D[1].ev = "call") =>
                 Added = IfTraceable(new, <<At("call", Top, new, NoExc)>>)
          /\ (pc = "run" /\ ctx.started /\ Len(D) = 1 /\ D[1].ev = "return") =>
                 Added = IfTraceable(Top, <<Own("return", Top, NoExc)>>)
          /\ (pc = "run" /\ ctx.started /\ Len(D) = 1 /\ D[1].ev = "exception") =>
                 Added = IfTraceable(Top, <<Own("exception", Top, inflight')>>)
          /\ (pc = "run" /\ ctx.started /\ Len(D) = 2) =>
                 Added = IfTraceable(Top, <<Own("return", Top, NoExc)>>) \o
                         IfTraceable(stack[Len(stack) - 1],
                             <<Own("exception", stack[Len(stack) - 1], inflight)>>)]_vars

\* f, at its second line, has called itself: that Call is logged at line 11
C14_Witness ==
    /\ pc = "run"
    /\ Len(stack) = 2
    /\ stack[1].fn = "f"
    /\ stack[2].fn = "f"
    /\ stack[1].line = 11
    /\ ctx.events = <<Event("call", <<"app.py">>, 10, "f", NoExc),
                      Event("call", <<"app.py">>, 11, "f", NoExc)>>

\* C15: in every state of the context, exception_info is None exactly when the
\* log holds no Exception event, and otherwise holds the kind, value, path,
\* line and function name of the last Exception event of the log.
C15_ExceptionInfoIsLastException ==
    /\ ctx.exception_info = LastInfo(ctx.events)
    /\ ctx.exception_info = NoInfo <=>
           \A i \in DOMAIN ctx.events : ctx.events[i].type # "exception"

\* the exception raised in m was logged there and again in g as it propagated
C15_Witness ==
    /\ Len(ctx.events) >= 2
    /\ \E i, j \in DOMAIN ctx.events :
         /\ i < j
         /\ ctx.events[i].type = "exception" /\ ctx.events[i].func = "<module>"
         /\ ctx.events[j].type = "exception" /\ ctx.events[j].func = "g"
    /\ ctx.exception_info.func = "g"
    /\ ctx.events[Len(ctx.events)].type = "return"

\* C16: whenever the traced function raises E, every report formatted with
\* is_failure in plain mode has the header "EXCEPTION: <kind>: <message> at
\* <path>:<line>" naming E and the trailer "STATUS: FAIL", also when the
\* context recorded no Exception event for E.
C16_FailHeaderNamesException ==
    \A i \in DOMAIN reports :
        (reports[i].is_failure /\ reports[i].out.kind = "str" /\ raisedE # NoExc) =>
            LET lines == reports[i].out.lines
            IN /\ lines[1].glyph = "EXCEPTION:"
               /\ lines[1].etype = raisedE.type
               /\ lines[1].evalue = raisedE.value
               /\ lines[Len(lines)] = Line("STATUS:", 0, <<>>, 0, "", "FAIL", "", "")

\* C17: on every non-empty event log, unmatched Returns included, the stack of
\* node handles of _build_tree never holds less than one element: a Call adds a
\* node and pushes it, a Return adds a node and pops one handle only when the
\* stack holds more than one, and a Return met with exactly one handle on the
\* stack adds no node and leaves the stack as it is.
C17_TreeStackNeverEmpty ==
    /\ [](pc = "tree" => Len(fmt.st.stack) >= 1)
    /\ [][(pc = "tree" /\ fmt'.i = fmt.i + 1) =>
            LET ev == ctx.events[fmt.i]
                st == fmt.st
            IN /\ ev.type = "call" =>
                    /\ Len(fmt'.st.nodes) = Len(st.nodes) + 1
                    /\ fmt'.st.stack = Append(st.stack, Len(st.nodes) + 1)
               /\ (ev.type = "return" /\ Len(st.stack) > 1) =>
                    /\ Len(fmt'.st.nodes) = Len(st.nodes) + 1
                    /\ fmt'.st.stack = SubSeq(st.stack, 1, Len(st.stack) - 1)
               /\ (ev.type = "return" /\ Len(st.stack) = 1) => fmt'.st = st]_vars

\* a log that starts with two Returns has been walked: the second Return met
\* the stack with only the root on it
C17_Witness ==
    /\ pc = "tree"
    /\ Len(ctx.events) >= 3
    /\ ctx.events[1].type = "return"
    /\ ctx.events[2].type = "return"
    /\ ctx.events[3].type = "call"
    /\ fmt.i > Len(ctx.events)
    /\ Len(fmt.st.stack) = 2

\* C18: when the traced function raises E, the hook is restored first, then the
\* FAIL report is formatted and routed to the sink, and only then does the
\* wrapper exit by an exception, which is E whenever the sink returned; from
\* the restoration on, the context records nothing.
C18_RestoreThenReportThenRaise ==
    [][raisedE # NoExc =>
         /\ Len(reports') = Len(reports) + 1 =>
               /\ reports'[Len(reports')].status = "FAIL"
               /\ reports'[Len(reports')].is_failure
               /\ Len(returned') = Len(reports')
               /\ pc = "restored"
               /\ hook = entryHook /\ hook' = entryHook
               /\ outcome = NoOutcome /\ outcome' = NoOutcome
         /\ outcome' # outcome =>
               /\ Len(reports) = 1 /\ Len(returned) = 1
               /\ reports[1].status = "FAIL"
               /\ hook = entryHook
               /\ outcome'.kind = "raise"
               /\ returned[1].exc = NoExc => outcome'.exc = raisedE
         /\ pc \in {"restored", "exit", "done"} => ctx' = ctx]_vars

\* f raised out of a traced tree under a foreign hook; the FAIL report went to
\* the console and the exception left the wrapper
C18_Witness ==
    /\ pc = "done"
    /\ entryHook = "outer_hook"
    /\ raisedE.type = "ValueError"
    /\ outcome = [kind |-> "raise", exc |-> raisedE]
    /\ Len(reports) = 1
    /\ reports[1].status = "FAIL"
    /\ Len(console) = 1
    /\ Len(ctx.events) >= 3

\* C19: while the context has not started, nothing is recorded: the log is
\* empty, exception_info is None and root_frame is None, whatever events were
\* delivered so far; and each frame those events belong to was still handed
\* trace_func as its local trace function.
C19_NothingRecordedWhileWaiting ==
    ~ctx.started =>
        /\ ctx.events = <<>>
        /\ ctx.exception_info = NoInfo
        /\ ctx.root_frame = 0
        /\ pc = "run" => \A i \in DOMAIN stack : stack[i].trace = "trace_func"

\* the target h is not traceable: the traceable module m under it was called
\* and raised, and the context is still waiting
C19_Witness ==
    /\ pc = "run"
    /\ ~ctx.started
    /\ cfg.func = "h"
    /\ Len(stack) = 2
    /\ stack[2].fn = "m"
    /\ stack[2].trace = "trace_func"
    /\ inflight.type = "AppError"
    /\ rt[Len(rt)] = RtEvent("exception", "m")

====
